---- MODULE Spec2Model ----
(***************************************************************************)
(* SEC Knowledge Graph Chat System: query routing, validation, formatting. *)
(*                                                                         *)
(* Python strings are modelled as sequences of one-character strings, so   *)
(* that lower(), split(), strip(), find() and the `in` operator are        *)
(* computed character by character as the interpreter computes them.       *)
(***************************************************************************)
EXTENDS Integers, Sequences, FiniteSets, TLC

(***************************************************************************)
(* Python values                                                           *)
(***************************************************************************)
None == [t |-> "None"]
PyStr(s) == [t |-> "str", v |-> s]
PyInt(n) == [t |-> "int", v |-> n]
PyList(items) == [t |-> "list", v |-> items]
PyDict(items) == [t |-> "dict", v |-> items]

\* Python truthiness (`if x:` / `not x`) of a value.
truthy(x) ==
    CASE x.t = "None" -> FALSE
      [] x.t = "int" -> x.v # 0
      [] OTHER -> Len(x.v) > 0

(***************************************************************************)
(* str methods                                                             *)
(***************************************************************************)
UpperChars == <<"A", "B", "C", "D", "E", "F", "G", "H", "I", "J", "K", "L", "M",
                "N", "O", "P", "Q", "R", "S", "T", "U", "V", "W", "X", "Y", "Z">>
LowerChars == <<"a", "b", "c", "d", "e", "f", "g", "h", "i", "j", "k", "l", "m",
                "n", "o", "p", "q", "r", "s", "t", "u", "v", "w", "x", "y", "z">>
Whitespace == {" ", "\t", "\n"}

\* the lowercase letter of each uppercase letter
lower_of ==
    [c \in {UpperChars[i] : i \in 1..26} |-> LowerChars[CHOOSE i \in 1..26 : UpperChars[i] = c]]

lower_char(c) == IF c \in DOMAIN lower_of THEN lower_of[c] ELSE c

\* s.lower()
str_lower(s) == [i \in 1..Len(s) |-> lower_char(s[i])]

\* does sub occur in s at 0-based offset i
occurs_at(s, sub, i) ==
    /\ i >= 0
    /\ i + Len(sub) <= Len(s)
    /\ \A j \in 1..Len(sub) : s[i + j] = sub[j]

\* `sub in s`
str_contains(sub, s) == \E i \in 0..(Len(s) - Len(sub)) : occurs_at(s, sub, i)

\* s.find(sub, start): lowest 0-based index >= start, or -1
str_find(s, sub, start) ==
    IF \E i \in start..(Len(s) - Len(sub)) : occurs_at(s, sub, i)
    THEN CHOOSE i \in start..(Len(s) - Len(sub)) :
            /\ occurs_at(s, sub, i)
            /\ \A k \in start..(i - 1) : ~occurs_at(s, sub, k)
    ELSE -1

\* s.strip(chars): characters of the set removed from BOTH ends
str_strip(s, chars) ==
    IF \A i \in 1..Len(s) : s[i] \in chars
    THEN <<>>
    ELSE LET first == CHOOSE i \in 1..Len(s) :
                          s[i] \notin chars /\ \A j \in 1..(i - 1) : s[j] \in chars
             last == CHOOSE i \in 1..Len(s) :
                          s[i] \notin chars /\ \A j \in (i + 1)..Len(s) : s[j] \in chars
         IN SubSeq(s, first, last)

RECURSIVE split_from(_, _, _, _)
split_from(s, i, cur, acc) ==
    IF i > Len(s)
    THEN (IF cur = <<>> THEN acc ELSE Append(acc, cur))
    ELSE IF s[i] \in Whitespace
         THEN split_from(s, i + 1, <<>>, IF cur = <<>> THEN acc ELSE Append(acc, cur))
         ELSE split_from(s, i + 1, Append(cur, s[i]), acc)

\* s.split(): split on runs of whitespace, no empty words
str_split(s) == split_from(s, 1, <<>>, <<>>)

(***************************************************************************)
(* String literals of the source                                           *)
(***************************************************************************)
kw_investment_firms == <<"i", "n", "v", "e", "s", "t", "m", "e", "n", "t", " ", "f", "i", "r", "m", "s">>
kw_near == <<"n", "e", "a", "r">>
kw_in == <<"i", "n">>
kw_at == <<"a", "t">>
kw_companies == <<"c", "o", "m", "p", "a", "n", "i", "e", "s">>
kw_what_does == <<"w", "h", "a", "t", " ", "d", "o", "e", "s">>
kw_do == <<"d", "o">>
city_punctuation == {".", ",", "!", "?"}
city_triggers == {kw_in, kw_near, kw_at}

(***************************************************************************)
(* QueryEngine entity extraction                                           *)
(***************************************************************************)
\* is words[i] a trigger word with a word after it
city_hit(words, i) == str_lower(words[i]) \in city_triggers /\ i + 1 <= Len(words)

\* the loop of _extract_city_from_question over the words of the question
city_from_words(words) ==
    IF \E i \in 1..Len(words) : city_hit(words, i)
    THEN PyStr(str_strip(words[(CHOOSE k \in 1..Len(words) :
                                   city_hit(words, k)
                                   /\ \A m \in 1..(k - 1) : ~city_hit(words, m)) + 1],
                         city_punctuation))
    ELSE None

\* _extract_city_from_question: the word after the first trigger word that
\* has a following word, stripped of '.,!?'; None when there is none.
extract_city_from_question(question) == city_from_words(str_split(question))

\* question[start:end].strip(), or None when find returned -1
company_slice(question, start, end) ==
    IF end # -1
    THEN PyStr(str_strip(SubSeq(question, start + 1, end), Whitespace))
    ELSE None

\* the text from `start` up to the next "do"
company_from(question, low, start) ==
    company_slice(question, start, str_find(low, kw_do, start))

\* the body of _extract_company_from_question over question.lower()
company_in(question, low) ==
    IF str_contains(kw_what_does, low)
    THEN company_from(question, low, str_find(low, kw_what_does, 0) + 9)
    ELSE None

\* _extract_company_from_question
extract_company_from_question(question) == company_in(question, str_lower(question))

(***************************************************************************)
(* Calls, completions and collaborator outcomes                            *)
(***************************************************************************)
\* one entry of the call trace of an operation
Call(name, args) == [call |-> name, args |-> args]

\* how a call completes: a return value or a raised exception (its str(e)),
\* together with the calls it made, in order
Return(v, calls) == [ret |-> v, exc |-> None, calls |-> calls]
Raise(msg, calls) == [ret |-> None, exc |-> msg, calls |-> calls]
raised(c) == c.exc.t # "None"

\* the completion c of a call made after the calls of `before`
with_calls(before, c) == [c EXCEPT !.calls = before \o c.calls]

\* what an external collaborator (Neo4j, the LangChain chain) does when called
Returns(v) == [raises |-> FALSE, v |-> v]
Raises(msg) == [raises |-> TRUE, v |-> PyStr(msg)]

\* the QueryResult dict
QueryResult(success, question, result, error) ==
    [success |-> success, question |-> question, result |-> result, error |-> error]

str_Manager == <<"M", "a", "n", "a", "g", "e", "r">>
msg_no_lower == <<"'", "N", "o", "n", "e", "T", "y", "p", "e", "'", " ", "o", "b", "j", "e", "c", "t", " ", "h", "a", "s", " ", "n", "o", " ", "a", "t", "t", "r", "i", "b", "u", "t", "e", " ", "'", "l", "o", "w", "e", "r", "'">>

(***************************************************************************)
(* GraphManager                                                            *)
(***************************************************************************)
\* execute_cypher: graph.query either returns its records or raises; the
\* failure is logged and re-raised.
execute_cypher(graphOut) ==
    IF graphOut.raises THEN Raise(graphOut.v, <<>>) ELSE Return(graphOut.v, <<>>)

\* spatial_query, get_companies_by_city, get_investment_firms_by_city and
\* get_company_description: one execute_cypher each, nothing caught.
catalog_query(name, args, graphOut) ==
    with_calls(<<Call(name, args)>>, execute_cypher(graphOut))

\* refresh_schema: logs and re-raises a failure of graph.refresh_schema()
refresh_schema(refreshOut) ==
    IF refreshOut.raises
    THEN Raise(refreshOut.v, <<Call("refresh_schema", <<>>)>>)
    ELSE Return(refreshOut.v, <<Call("refresh_schema", <<>>)>>)

(***************************************************************************)
(* CypherGenerator                                                         *)
(***************************************************************************)
\* variant: the failure results carry an empty list as payload
synthesis_result_empty_payload(question, r, chainOut) ==
    IF raised(r)
    THEN Return(QueryResult(FALSE, question, PyList(<<>>), r.exc), r.calls)
    ELSE IF chainOut.raises
    THEN Return(QueryResult(FALSE, question, PyList(<<>>), chainOut.v),
                r.calls \o <<Call("cypher_chain.run", <<question>>)>>)
    ELSE Return(QueryResult(TRUE, question, chainOut.v, None),
                r.calls \o <<Call("cypher_chain.run", <<question>>)>>)

\* the try block and the handler of generate_and_execute, given how
\* refresh_schema completed (r): any exception becomes a failed QueryResult
\* carrying str(e)
synthesis_result(question, r, chainOut) ==
    IF raised(r)
    THEN Return(QueryResult(FALSE, question, None, r.exc), r.calls)
    ELSE IF chainOut.raises
    THEN Return(QueryResult(FALSE, question, None, chainOut.v),
                r.calls \o <<Call("cypher_chain.run", <<question>>)>>)
    ELSE Return(QueryResult(TRUE, question, chainOut.v, None),
                r.calls \o <<Call("cypher_chain.run", <<question>>)>>)

\* generate_and_execute: refresh the schema, then run the chain on the question
generate_and_execute(question, refreshOut, chainOut) ==
    with_calls(<<Call("generate_and_execute", <<question>>)>>,
               synthesis_result(question, refresh_schema(refreshOut), chainOut))

(***************************************************************************)
(* QueryEngine routing                                                     *)
(***************************************************************************)
\* variant: a failed synthesis is attempted a second time
retry_failed(first, second) ==
    IF first.ret.success THEN first ELSE with_calls(first.calls, second)

process_with_llm_retry(question, refreshOut, chainOut) ==
    retry_failed(generate_and_execute(question, refreshOut, chainOut),
                 generate_and_execute(question, refreshOut, chainOut))

\* variant: the lowercased text is what reaches the synthesis
process_with_llm_lowered(question, refreshOut, chainOut) ==
    generate_and_execute(IF question.t = "str" THEN PyStr(str_lower(question.v)) ELSE question,
                         refreshOut, chainOut)

\* _process_with_llm
process_with_llm(question, refreshOut, chainOut) ==
    generate_and_execute(question, refreshOut, chainOut)

\* variant: the companies branch tests "near" where the source tests "in"
match_pattern_companies_near(question_lower) ==
    IF str_contains(kw_investment_firms, question_lower)
       /\ str_contains(kw_near, question_lower)
    THEN "spatial_query"
    ELSE IF str_contains(kw_investment_firms, question_lower)
            /\ str_contains(kw_in, question_lower)
    THEN "get_investment_firms_by_city"
    ELSE IF str_contains(kw_companies, question_lower)
            /\ str_contains(kw_near, question_lower)
    THEN "get_companies_by_city"
    ELSE IF str_contains(kw_what_does, question_lower)
            /\ str_contains(kw_do, question_lower)
    THEN "get_company_description"
    ELSE "none"

\* variant: the companies branch tests "companies" alone
match_pattern_companies_only(question_lower) ==
    IF str_contains(kw_investment_firms, question_lower)
       /\ str_contains(kw_near, question_lower)
    THEN "spatial_query"
    ELSE IF str_contains(kw_investment_firms, question_lower)
            /\ str_contains(kw_in, question_lower)
    THEN "get_investment_firms_by_city"
    ELSE IF str_contains(kw_companies, question_lower)
    THEN "get_companies_by_city"
    ELSE IF str_contains(kw_what_does, question_lower)
            /\ str_contains(kw_do, question_lower)
    THEN "get_company_description"
    ELSE "none"

\* variant: the "in" branch of investment firms is tested before "near"
match_pattern_in_before_near(question_lower) ==
    IF str_contains(kw_investment_firms, question_lower)
       /\ str_contains(kw_in, question_lower)
    THEN "get_investment_firms_by_city"
    ELSE IF str_contains(kw_investment_firms, question_lower)
            /\ str_contains(kw_near, question_lower)
    THEN "spatial_query"
    ELSE IF str_contains(kw_companies, question_lower)
            /\ str_contains(kw_in, question_lower)
    THEN "get_companies_by_city"
    ELSE IF str_contains(kw_what_does, question_lower)
            /\ str_contains(kw_do, question_lower)
    THEN "get_company_description"
    ELSE "none"

\* the if/elif chain of _process_direct_query over question_lower: the
\* catalog operation of the first branch whose condition holds, or "none"
match_pattern(question_lower) ==
    IF str_contains(kw_investment_firms, question_lower)
       /\ str_contains(kw_near, question_lower)
    THEN "spatial_query"
    ELSE IF str_contains(kw_investment_firms, question_lower)
            /\ str_contains(kw_in, question_lower)
    THEN "get_investment_firms_by_city"
    ELSE IF str_contains(kw_companies, question_lower)
            /\ str_contains(kw_in, question_lower)
    THEN "get_companies_by_city"
    ELSE IF str_contains(kw_what_does, question_lower)
            /\ str_contains(kw_do, question_lower)
    THEN "get_company_description"
    ELSE "none"

\* the entity the matched branch extracts from the original question
required_entity(pattern, question) ==
    IF pattern = "none" THEN None
    ELSE IF pattern = "get_company_description"
    THEN extract_company_from_question(question)
    ELSE extract_city_from_question(question)

\* the arguments the matched branch passes to its catalog operation
catalog_args(pattern, entity) ==
    IF pattern = "spatial_query" THEN <<entity, PyStr(str_Manager)>> ELSE <<entity>>

\* a catalog result wrapped as a successful QueryResult; a failure of the
\* catalog call is left to the handler
wrap_catalog(question, cat) ==
    IF raised(cat) THEN cat
    ELSE Return(QueryResult(TRUE, question, cat.ret, None), cat.calls)

\* the try block of _process_direct_query once the pattern and its entity
\* are known: the catalog query, or the fall through to line 96
try_direct(question, pattern, entity, graphOut, refreshOut, chainOut) ==
    IF pattern # "none" /\ truthy(entity)
    THEN wrap_catalog(question,
                      catalog_query(pattern, catalog_args(pattern, entity), graphOut))
    ELSE process_with_llm(question, refreshOut, chainOut)

try_pattern(question, pattern, graphOut, refreshOut, chainOut) ==
    try_direct(question, pattern, required_entity(pattern, question.v),
               graphOut, refreshOut, chainOut)

\* the handler of _process_direct_query (lines 98-100)
except_fallback(question, body, refreshOut, chainOut) ==
    IF raised(body)
    THEN with_calls(body.calls, process_with_llm(question, refreshOut, chainOut))
    ELSE body

\* _process_direct_query; question.lower() is outside the try
process_direct_query(question, graphOut, refreshOut, chainOut) ==
    IF question.t # "str"
    THEN Raise(PyStr(msg_no_lower), <<Call("_process_direct_query", <<question>>)>>)
    ELSE with_calls(<<Call("_process_direct_query", <<question>>)>>,
                    except_fallback(question,
                                    try_pattern(question,
                                                match_pattern(str_lower(question.v)),
                                                graphOut, refreshOut, chainOut),
                                    refreshOut, chainOut))

\* variant: process_query without its try/except
process_query_unguarded(question, use_llm_arg, graphOut, refreshOut, chainOut) ==
    with_calls(<<Call("process_query", <<question, use_llm_arg>>)>>,
               IF use_llm_arg
               THEN process_with_llm(question, refreshOut, chainOut)
               ELSE process_direct_query(question, graphOut, refreshOut, chainOut))

\* the handler of process_query: an exception becomes a failed QueryResult
catch_all(question, inner) ==
    IF raised(inner)
    THEN Return(QueryResult(FALSE, question, None, inner.exc), inner.calls)
    ELSE inner

\* process_query
process_query(question, use_llm_arg, graphOut, refreshOut, chainOut) ==
    with_calls(<<Call("process_query", <<question, use_llm_arg>>)>>,
               catch_all(question,
                         IF use_llm_arg
                         THEN process_with_llm(question, refreshOut, chainOut)
                         ELSE process_direct_query(question, graphOut, refreshOut, chainOut)))

(***************************************************************************)
(* str() and textwrap.fill                                                 *)
(***************************************************************************)
Digits == <<"0", "1", "2", "3", "4", "5", "6", "7", "8", "9">>

RECURSIVE nat_str(_)
nat_str(n) ==
    IF n < 10 THEN <<Digits[n + 1]>>
    ELSE nat_str(n \div 10) \o <<Digits[(n % 10) + 1]>>

int_str(n) == IF n < 0 THEN <<"-">> \o nat_str(-n) ELSE nat_str(n)

str_None == <<"N", "o", "n", "e">>

\* str(x) of None, a string or an integer
py_str(x) ==
    IF x.t = "None" THEN str_None
    ELSE IF x.t = "int" THEN int_str(x.v)
    ELSE x.v

RECURSIVE concat(_)
\* ''.join(parts)
concat(parts) == IF parts = <<>> THEN <<>> ELSE parts[1] \o concat(Tail(parts))

RECURSIVE join_with(_, _)
\* sep.join(parts)
join_with(parts, sep) ==
    IF parts = <<>> THEN <<>>
    ELSE IF Len(parts) = 1 THEN parts[1]
    ELSE parts[1] \o sep \o join_with(Tail(parts), sep)

\* TextWrapper._munge_whitespace: every whitespace character becomes a
\* blank (texts with tabs, which expandtabs widens, are not modelled)
munge_whitespace(text) ==
    [i \in 1..Len(text) |-> IF text[i] \in Whitespace THEN " " ELSE text[i]]

\* chunk.strip() == ''
is_blank(chunk) == \A i \in 1..Len(chunk) : chunk[i] \in Whitespace

RECURSIVE chunks_from(_, _, _, _)
chunks_from(s, i, cur, acc) ==
    IF i > Len(s)
    THEN (IF cur = <<>> THEN acc ELSE Append(acc, cur))
    ELSE IF cur = <<>> \/ ((s[i] = " ") <=> (cur[1] = " "))
         THEN chunks_from(s, i + 1, Append(cur, s[i]), acc)
         ELSE chunks_from(s, i + 1, <<s[i]>>, Append(acc, cur))

\* TextWrapper._split_chunks for texts without hyphens and dashes: the
\* maximal runs of blanks and of non-blanks, in order
split_chunks(text) == chunks_from(text, 1, <<>>, <<>>)

RECURSIVE take_fitting(_, _, _)
\* how many leading chunks fit on a line that already holds cur_len columns
take_fitting(chunks, w, cur_len) ==
    IF chunks = <<>> THEN 0
    ELSE IF cur_len + Len(chunks[1]) <= w
         THEN 1 + take_fitting(Tail(chunks), w, cur_len + Len(chunks[1]))
         ELSE 0

RECURSIVE wrap_chunks(_, _, _)
\* TextWrapper._wrap_chunks with drop_whitespace and break_long_words,
\* no indent, no max_lines (the defaults), for w > 0
wrap_chunks(chunks, w, lines) ==
    IF chunks = <<>> THEN lines
    ELSE
    LET c0 == IF is_blank(chunks[1]) /\ lines # <<>> THEN Tail(chunks) ELSE chunks
        k == take_fitting(c0, w, 0)
        fit == SubSeq(c0, 1, k)
        rest == SubSeq(c0, k + 1, Len(c0))
        long == rest # <<>> /\ Len(rest[1]) > w
        space_left == IF w < 1 THEN 1 ELSE w - Len(concat(fit))
        cur1 == IF long THEN Append(fit, SubSeq(rest[1], 1, space_left)) ELSE fit
        rest1 == IF long
                 THEN <<SubSeq(rest[1], space_left + 1, Len(rest[1]))>> \o Tail(rest)
                 ELSE rest
        cur2 == IF cur1 # <<>> /\ is_blank(cur1[Len(cur1)])
                THEN SubSeq(cur1, 1, Len(cur1) - 1)
                ELSE cur1
        lines1 == IF cur2 # <<>> THEN Append(lines, concat(cur2)) ELSE lines
    IN wrap_chunks(rest1, w, lines1)

msg_invalid_width == <<"i", "n", "v", "a", "l", "i", "d", " ", "w", "i", "d", "t", "h", " ">>
msg_must_be_positive == <<" ", "(", "m", "u", "s", "t", " ", "b", "e", " ", ">", " ", "0", ")">>

\* textwrap.fill(text, width): the wrapped lines joined by newlines;
\* ValueError for a width below 1
textwrap_fill(text, w) ==
    IF w <= 0
    THEN Raise(PyStr(msg_invalid_width \o int_str(w) \o msg_must_be_positive), <<>>)
    ELSE Return(PyStr(join_with(wrap_chunks(split_chunks(munge_whitespace(text)), w, <<>>),
                                <<"\n">>)), <<>>)

(***************************************************************************)
(* QueryEngine.format_result                                               *)
(***************************************************************************)
str_no_results == <<"N", "o", " ", "r", "e", "s", "u", "l", "t", "s", " ", "f", "o", "u", "n", "d", ".">>
str_error_prefix == <<"E", "r", "r", "o", "r", ":", " ">>
str_field_sep == <<" ", "|", " ">>
str_key_sep == <<":", " ">>

RECURSIVE dict_fields(_)
\* f"{k}: {v}" for the items of a dict whose value is not None
dict_fields(items) ==
    IF items = <<>> THEN <<>>
    ELSE IF items[1][2].t = "None"
         THEN dict_fields(Tail(items))
         ELSE <<items[1][1] \o str_key_sep \o py_str(items[1][2])>> \o dict_fields(Tail(items))

\* the text of one list item before wrapping
item_text(item) ==
    IF item.t = "dict" THEN join_with(dict_fields(item.v), str_field_sep) ELSE py_str(item)

\* formatted_lines.append(...): a ValueError of textwrap.fill ends the loop
append_line(line, others) ==
    IF raised(line) THEN line
    ELSE IF raised(others) THEN others
    ELSE Return(<<line.ret.v>> \o others.ret, <<>>)

RECURSIVE format_items(_, _)
\* the wrapped texts of the list items
format_items(items, w) ==
    IF items = <<>> THEN Return(<<>>, <<>>)
    ELSE append_line(textwrap_fill(item_text(items[1]), w), format_items(Tail(items), w))

\* "\n\n".join(formatted_lines)
join_lines(ls) ==
    IF raised(ls) THEN ls ELSE Return(PyStr(join_with(ls.ret, <<"\n", "\n">>)), <<>>)

\* format_result
format_result(res, w) ==
    IF ~res.success
    THEN Return(PyStr(str_error_prefix \o py_str(res.error)), <<>>)
    ELSE IF ~truthy(res.result)
    THEN Return(PyStr(str_no_results), <<>>)
    ELSE IF res.result.t = "list"
    THEN join_lines(format_items(res.result.v, w))
    ELSE textwrap_fill(py_str(res.result), w)

(***************************************************************************)
(* utils.validate_question                                                 *)
(***************************************************************************)
min_question_length == 3
max_question_length == 1000

term_password == <<"p", "a", "s", "s", "w", "o", "r", "d">>
term_secret == <<"s", "e", "c", "r", "e", "t">>
term_confidential == <<"c", "o", "n", "f", "i", "d", "e", "n", "t", "i", "a", "l">>
inappropriate_terms == {term_password, term_secret, term_confidential}

msg_empty == <<"Q", "u", "e", "s", "t", "i", "o", "n", " ", "c", "a", "n", "n", "o", "t", " ", "b", "e", " ", "e", "m", "p", "t", "y">>
msg_too_short == <<"Q", "u", "e", "s", "t", "i", "o", "n", " ", "i", "s", " ", "t", "o", "o", " ", "s", "h", "o", "r", "t">>
msg_too_long == <<"Q", "u", "e", "s", "t", "i", "o", "n", " ", "i", "s", " ", "t", "o", "o", " ", "l", "o", "n", "g">>
msg_inappropriate == <<"Q", "u", "e", "s", "t", "i", "o", "n", " ", "c", "o", "n", "t", "a", "i", "n", "s", " ", "i", "n", "a", "p", "p", "r", "o", "p", "r", "i", "a", "t", "e", " ", "t", "e", "r", "m", "s">>

\* the (is_valid, error_msg) pair
Validation(valid, reason) == [valid |-> valid, reason |-> reason]

\* validate_question: the lower bound is tested on the stripped text, the
\* upper bound and the terms on the text as given
validate_question(q) ==
    IF ~truthy(q) \/ ~truthy(PyStr(str_strip(q.v, Whitespace)))
    THEN Validation(FALSE, PyStr(msg_empty))
    ELSE IF Len(str_strip(q.v, Whitespace)) < min_question_length
    THEN Validation(FALSE, PyStr(msg_too_short))
    ELSE IF Len(q.v) > max_question_length
    THEN Validation(FALSE, PyStr(msg_too_long))
    ELSE IF \E term \in inappropriate_terms : str_contains(term, str_lower(q.v))
    THEN Validation(FALSE, PyStr(msg_inappropriate))
    ELSE Validation(TRUE, None)

(***************************************************************************)
(* QueryEngine.health_check and GraphManager.health_check                  *)
(***************************************************************************)
str_canonical == <<"W", "h", "a", "t", " ", "i", "n", "v", "e", "s", "t", "m", "e", "n", "t", " ", "f", "i", "r", "m", "s", " ", "a", "r", "e", " ", "i", "n", " ", "S", "a", "n", " ", "F", "r", "a", "n", "c", "i", "s", "c", "o", "?">>
str_graph_database == <<"g", "r", "a", "p", "h", "_", "d", "a", "t", "a", "b", "a", "s", "e">>
str_cypher_generation == <<"c", "y", "p", "h", "e", "r", "_", "g", "e", "n", "e", "r", "a", "t", "i", "o", "n">>
str_overall == <<"o", "v", "e", "r", "a", "l", "l">>
str_healthy == <<"h", "e", "a", "l", "t", "h", "y">>
str_unhealthy == <<"u", "n", "h", "e", "a", "l", "t", "h", "y">>

\* variant: process_query dispatches to the direct router by default
use_llm_default_false == FALSE

\* the default of process_query's use_llm parameter
use_llm_default == TRUE

\* the default of format_result's width parameter
width_default == 80

\* GraphManager.health_check: the probe query; a failure is logged and
\* turned into False
graph_health_check(probeOut) ==
    Return(~probeOut.raises, <<Call("graph.query", <<PyStr(<<"R", "E", "T", "U", "R", "N", " ", "1", " ", "a", "s", " ", "t", "e", "s", "t">>)>>)>>)

status_of(ok) == PyStr(IF ok THEN str_healthy ELSE str_unhealthy)

\* variant: the overall status is healthy when either probe is healthy
health_report_either(g, cypher_test) ==
    IF raised(cypher_test)
    THEN with_calls(g.calls, cypher_test)
    ELSE Return(PyDict(<< <<str_graph_database, status_of(g.ret)>>,
                          <<str_cypher_generation, status_of(cypher_test.ret.success)>>,
                          <<str_overall, status_of(g.ret \/ cypher_test.ret.success)>> >>),
                g.calls \o cypher_test.calls)

\* the report built from the two probes
health_report(g, cypher_test) ==
    IF raised(cypher_test)
    THEN with_calls(g.calls, cypher_test)
    ELSE Return(PyDict(<< <<str_graph_database, status_of(g.ret)>>,
                          <<str_cypher_generation, status_of(cypher_test.ret.success)>>,
                          <<str_overall, status_of(g.ret /\ cypher_test.ret.success)>> >>),
                g.calls \o cypher_test.calls)

\* QueryEngine.health_check
health_check(probeOut, graphOut, refreshOut, chainOut) ==
    health_report(graph_health_check(probeOut),
                  process_query(PyStr(str_canonical), use_llm_default,
                                graphOut, refreshOut, chainOut))

(***************************************************************************)
(* main.py: SECChatApplication and main                                    *)
(***************************************************************************)
str_quit == <<"q", "u", "i", "t">>
str_exit == <<"e", "x", "i", "t">>
str_health == <<"h", "e", "a", "l", "t", "h">>
out_goodbye == <<"G", "o", "o", "d", "b", "y", "e", "!">>
out_health_title == <<"S", "y", "s", "t", "e", "m", " ", "H", "e", "a", "l", "t", "h", " ", "C", "h", "e", "c", "k", ":">>
out_invalid == <<"I", "n", "v", "a", "l", "i", "d", " ", "q", "u", "e", "s", "t", "i", "o", "n", ":", " ">>
out_processing == <<"\n", "P", "r", "o", "c", "e", "s", "s", "i", "n", "g", ".", ".", ".">>
out_result_nl == <<"\n", "R", "e", "s", "u", "l", "t", ":", "\n">>
out_error_occurred == <<"A", "n", " ", "e", "r", "r", "o", "r", " ", "o", "c", "c", "u", "r", "r", "e", "d", ":", " ">>
out_question == <<"Q", "u", "e", "s", "t", "i", "o", "n", ":", " ">>
out_result == <<"R", "e", "s", "u", "l", "t", ":", "\n">>
\* the lines printed when run_interactive starts
out_banner == <<PyStr(<<"S", "E", "C", " ", "K", "n", "o", "w", "l", "e", "d", "g", "e", " ", "G", "r", "a", "p", "h", " ", "C", "h", "a", "t", " ", "S", "y", "s", "t", "e", "m">>),
               PyStr(<<"T", "y", "p", "e", " ", "'", "q", "u", "i", "t", "'", " ", "o", "r", " ", "'", "e", "x", "i", "t", "'", " ", "t", "o", " ", "e", "n", "d", " ", "t", "h", "e", " ", "s", "e", "s", "s", "i", "o", "n">>),
               PyStr(<<"T", "y", "p", "e", " ", "'", "h", "e", "a", "l", "t", "h", "'", " ", "t", "o", " ", "c", "h", "e", "c", "k", " ", "s", "y", "s", "t", "e", "m", " ", "s", "t", "a", "t", "u", "s">>),
               PyStr([i \in 1..50 |-> "-"])>>

\* what handling one input leaves behind
Handled(q, v, c, r, f, p, x, h, e) ==
    [question |-> q, validation |-> v, calls |-> c, result |-> r, formatted |-> f,
     printed |-> p, exit_code |-> x, health |-> h, escaped |-> e]

RECURSIVE health_lines(_)
\* print(f"  {component}: {status}") for each item of the report
health_lines(items) ==
    IF items = <<>> THEN <<>>
    ELSE <<PyStr(<<" ", " ">> \o items[1][1] \o str_key_sep \o items[1][2].v)>>
         \o health_lines(Tail(items))

\* the result and its formatted text, or the exception of either call
answered(r, f) ==
    IF raised(r) THEN r
    ELSE IF raised(f) THEN with_calls(r.calls, f)
    ELSE Return([result |-> r.ret, formatted |-> f.ret], r.calls)

format_answer(r) == answered(r, format_result(r.ret, width_default))

\* process_query followed by format_result, both with default arguments
\* (main.py lines 60-61 and 79-80)
answer(q, e) ==
    format_answer(process_query(q, use_llm_default, e.graph, e.refresh, e.chain))

\* what run_single_query leaves behind for an answered question
single_answered(q, v, a, before) ==
    IF raised(a)
    THEN Handled(q, v, a.calls, None, None, before, None, None, a.exc)
    ELSE Handled(q, v, a.calls, a.ret.result, a.ret.formatted,
                 before \o <<PyStr(out_question \o q.v),
                             PyStr(out_result \o a.ret.formatted.v)>>,
                 IF a.ret.result.success THEN None ELSE PyInt(1), None, None)

\* variant: the early return after the validation error is missing
single_validated_no_return(q, v, e) ==
    single_answered(q, v, answer(q, e),
                    IF v.valid THEN <<>> ELSE <<PyStr(str_error_prefix \o v.reason.v)>>)

\* run_single_query after validate_question returned v
single_validated(q, v, e) ==
    IF ~v.valid
    THEN Handled(q, v, <<>>, None, None, <<PyStr(str_error_prefix \o v.reason.v)>>,
                 None, None, None)
    ELSE single_answered(q, v, answer(q, e), <<>>)

\* SECChatApplication.run_single_query
run_single_query(q, e) == single_validated(q, validate_question(q), e)

\* the 'health' command of the loop
step_health(q, h) ==
    IF raised(h)
    THEN Handled(q, None, h.calls, None, None,
                 <<PyStr(out_error_occurred \o h.exc.v)>>, None, None, None)
    ELSE Handled(q, None, h.calls, None, None,
                 <<PyStr(<<"\n">> \o out_health_title)>> \o health_lines(h.ret.v),
                 None, h.ret, None)

\* the loop body for an answered question; an exception is caught and
\* printed by the loop
step_answered(q, v, a) ==
    IF raised(a)
    THEN Handled(q, v, a.calls, None, None,
                 <<PyStr(out_processing), PyStr(out_error_occurred \o a.exc.v)>>,
                 None, None, None)
    ELSE Handled(q, v, a.calls, a.ret.result, a.ret.formatted,
                 <<PyStr(out_processing), PyStr(out_result_nl \o a.ret.formatted.v)>>,
                 None, None, None)

\* the loop body after validate_question returned v
step_validated(q, v, e) ==
    IF ~v.valid
    THEN Handled(q, v, <<>>, None, None, <<PyStr(out_invalid \o v.reason.v)>>,
                 None, None, None)
    ELSE step_answered(q, v, answer(q, e))

\* the loop body on the stripped line q and its lowercase form
step_command(q, low, e) ==
    IF low \in {str_quit, str_exit}
    THEN Handled(q, None, <<>>, None, None, <<PyStr(out_goodbye)>>, None, None, None)
    ELSE IF low = str_health
    THEN step_health(q, health_check(e.probe, e.graph, e.refresh, e.chain))
    ELSE IF ~truthy(q)
    THEN Handled(q, None, <<>>, None, None, <<>>, None, None, None)
    ELSE step_validated(q, validate_question(q), e)

step_stripped(q, e) == step_command(q, str_lower(q.v), e)

\* one pass of the loop of SECChatApplication.run_interactive on one line
\* of input
run_interactive_step(line, e) == step_stripped(PyStr(str_strip(line, Whitespace)), e)

\* main after health_check completed: the report is printed and decides
\* the exit status; an exception is printed by main's handler
health_exit(h) ==
    IF raised(h)
    THEN Handled(None, None, h.calls, None, None,
                 <<PyStr(str_error_prefix \o h.exc.v)>>, PyInt(1), None, None)
    ELSE Handled(None, None, h.calls, None, None,
                 <<PyStr(out_health_title)>> \o health_lines(h.ret.v),
                 PyInt(IF h.ret.v[3][2] = PyStr(str_healthy) THEN 0 ELSE 1), h.ret, None)

\* main with --health
main_health(e) == health_exit(health_check(e.probe, e.graph, e.refresh, e.chain))

(***************************************************************************)
(* State                                                                   *)
(***************************************************************************)
VARIABLES
    pc,          \* position of the caller: what has been done with the question
    question,    \* the question text handed to the operation (a Python value)
    use_llm,     \* the use_llm argument of process_query
    env,         \* how the collaborators answer while this question is handled
    calls,       \* the calls made for this question, in order
    result,      \* the QueryResult returned by process_query, or None
    escaped,     \* str(e) of an exception that escaped the operation, or None
    validation,  \* the pair returned by validate_question, or None
    width,       \* the width argument of format_result
    formatted,   \* the string returned by format_result, or None
    printed,     \* what the command line printed for this input, in order
    exit_code,   \* the status passed to sys.exit, or None
    health,      \* the report returned by health_check, or None
    entity       \* the value returned by an extraction function, or None

vars == <<pc, question, use_llm, env, calls, result, escaped, validation,
          width, formatted, printed, exit_code, health, entity>>

(***************************************************************************)
(* Inputs                                                                  *)
(***************************************************************************)
\* longest question, in pieces
MaxPieces == 2

p_firms == <<"W", "h", "a", "t", " ", "i", "n", "v", "e", "s", "t", "m", "e", "n", "t", " ", "f", "i", "r", "m", "s", " ", "a", "r", "e">>
p_firms_companies == <<"W", "h", "i", "c", "h", " ", "i", "n", "v", "e", "s", "t", "m", "e", "n", "t", " ", "f", "i", "r", "m", "s", " ", "a", "n", "d", " ", "c", "o", "m", "p", "a", "n", "i", "e", "s", " ", "a", "r", "e">>
p_companies == <<"W", "h", "a", "t", " ", "c", "o", "m", "p", "a", "n", "i", "e", "s", " ", "a", "r", "e">>
p_in_Boston == <<"i", "n", " ", "B", "o", "s", "t", "o", "n", "?">>
p_Near_Boston == <<"N", "e", "a", "r", " ", "B", "o", "s", "t", "o", "n", "?">>
p_in_mark == <<"i", "n", " ", "?">>
p_IN == <<"I", "N">>
p_listing == <<"l", "i", "s", "t", "i", "n", "g">>
p_What_does_Acme == <<"W", "h", "a", "t", " ", "d", "o", "e", "s", " ", "A", "c", "m", "e">>
p_What_does == <<"W", "h", "a", "t", " ", "d", "o", "e", "s">>
p_do == <<"d", "o", "?">>
p_do_for_firms == <<"d", "o", " ", "f", "o", "r", " ", "i", "n", "v", "e", "s", "t", "m", "e", "n", "t", " ", "f", "i", "r", "m", "s", "?">>

Pieces == {p_firms, p_firms_companies, p_companies, p_in_Boston, p_Near_Boston,
           p_in_mark, p_IN, p_listing, p_What_does_Acme, p_What_does, p_do,
           p_do_for_firms}

RECURSIVE join(_)
\* the pieces separated by single spaces
join(ps) ==
    IF Len(ps) = 0 THEN <<>>
    ELSE IF Len(ps) = 1 THEN ps[1]
    ELSE ps[1] \o <<" ">> \o join(Tail(ps))

Questions == {join(ps) : ps \in UNION {[1..n -> Pieces] : n \in 1..MaxPieces}}

msg_db_down == <<"d", "b", " ", "d", "o", "w", "n">>
msg_schema == <<"s", "c", "h", "e", "m", "a", " ", "u", "n", "a", "v", "a", "i", "l", "a", "b", "l", "e">>
msg_llm_failed == <<"l", "l", "m", " ", "f", "a", "i", "l", "e", "d">>
str_name == <<"n", "a", "m", "e">>
str_Acme_Corp == <<"A", "c", "m", "e", " ", "C", "o", "r", "p">>

\* a list of one record, as graph.query returns it
Records == PyList(<<PyDict(<< <<str_name, PyStr(str_Acme_Corp)>> >>)>>)

\* graph.query for a catalog query: records, no records, or a failure
GraphOutcomes == {Returns(Records), Returns(PyList(<<>>)), Raises(msg_db_down)}
\* graph.refresh_schema()
RefreshOutcomes == {Returns(None), Raises(msg_schema)}
\* cypher_chain.run with return_direct=True: the records of the generated
\* query, or a failure of generation or execution
ChainOutcomes == {Returns(Records), Returns(PyList(<<>>)), Raises(msg_llm_failed)}

Envs == [graph : GraphOutcomes, refresh : RefreshOutcomes, chain : ChainOutcomes]

NoEnv == [graph |-> Returns(None), refresh |-> Returns(None), chain |-> Returns(None)]

(***************************************************************************)
(* The engine: one process_query call per question                         *)
(***************************************************************************)
Init ==
    /\ pc = "received"
    /\ question \in {PyStr(q) : q \in Questions} \cup {None}
    /\ use_llm \in BOOLEAN
    /\ env \in Envs
    /\ calls = <<>>
    /\ result = None
    /\ escaped = None
    /\ validation = None
    /\ width = 80
    /\ formatted = None
    /\ printed = <<>>
    /\ exit_code = None
    /\ health = None
    /\ entity = None

ProcessQuery ==
    /\ pc = "received"
    /\ LET c == process_query(question, use_llm, env.graph, env.refresh, env.chain)
       IN /\ calls' = c.calls
          /\ result' = c.ret
          /\ escaped' = c.exc
    /\ pc' = "answered"
    /\ UNCHANGED <<question, use_llm, env, validation, width, formatted, printed,
                   exit_code, health, entity>>

Next == ProcessQuery

Spec == Init /\ [][Next]_vars

(***************************************************************************)
(* Properties of the router                                                *)
(***************************************************************************)
CatalogOps == {"spatial_query", "get_investment_firms_by_city",
               "get_companies_by_city", "get_company_description"}

\* how many calls of the trace go to one of the named operations
CountCalls(names) == Cardinality({i \in DOMAIN calls : calls[i].call \in names})

IsQueryResult(r) == "success" \in DOMAIN r

\* the direct router has handled a question (a string)
DirectAnswered == pc = "answered" /\ ~use_llm /\ question.t = "str"

QLower == str_lower(question.v)

\* the pair of keywords of one direct pattern is contained in the question
HasPair(a, b) == str_contains(a, QLower) /\ str_contains(b, QLower)

CityExtractable == truthy(extract_city_from_question(question.v))

\* C2 as stated: every question containing "companies" and "in" with an
\* extractable city makes exactly one companies-by-city call and no LLM
\* synthesis, when the catalog call succeeds.
C2_Original ==
    (DirectAnswered /\ HasPair(kw_companies, kw_in) /\ CityExtractable
       /\ ~env.graph.raises)
    => /\ CountCalls({"get_companies_by_city"}) = 1
       /\ CountCalls({"generate_and_execute"}) = 0

\* C2 amended: the same for the questions that do not also contain
\* "investment firms", whose patterns are tried first.
C2_CompaniesByCity ==
    (DirectAnswered /\ HasPair(kw_companies, kw_in) /\ CityExtractable
       /\ ~str_contains(kw_investment_firms, QLower)
       /\ ~env.graph.raises)
    => /\ CountCalls({"get_companies_by_city"}) = 1
       /\ CountCalls(CatalogOps) = 1
       /\ CountCalls({"generate_and_execute"}) = 0

C2_Witness ==
    /\ DirectAnswered
    /\ question.v = join(<<p_companies, p_in_Boston>>)
    /\ ~env.graph.raises
    /\ calls[3] = Call("get_companies_by_city", <<PyStr(<<"B", "o", "s", "t", "o", "n">>)>>)
    /\ result.success

NoPatternKeywords ==
    /\ ~HasPair(kw_investment_firms, kw_near)
    /\ ~HasPair(kw_investment_firms, kw_in)
    /\ ~HasPair(kw_companies, kw_in)
    /\ ~HasPair(kw_what_does, kw_do)

\* C3: a question with no direct pattern's keywords makes exactly one LLM
\* synthesis call and no catalog call.
C3_NoPatternGoesToLLM ==
    (DirectAnswered /\ NoPatternKeywords)
    => /\ CountCalls({"generate_and_execute"}) = 1
       /\ CountCalls(CatalogOps) = 0

C3_Witness ==
    /\ DirectAnswered
    /\ question.v = join(<<p_companies, p_Near_Boston>>)
    /\ NoPatternKeywords
    /\ CountCalls({"generate_and_execute"}) = 1

\* C4: one question makes at most one catalog call and at most one LLM
\* synthesis call (one schema refresh, one chain run), on every path.
C4_AtMostOneCallEach ==
    pc = "answered"
    => /\ CountCalls(CatalogOps) <= 1
       /\ CountCalls({"generate_and_execute"}) <= 1
       /\ CountCalls({"cypher_chain.run"}) <= 1
       /\ CountCalls({"refresh_schema"}) <= 1

\* a catalog failure followed by a failed synthesis: one call of each
C4_Witness ==
    /\ DirectAnswered
    /\ env.graph.raises /\ env.chain.raises /\ ~env.refresh.raises
    /\ CountCalls(CatalogOps) = 1
    /\ CountCalls({"generate_and_execute"}) = 1
    /\ ~result.success

ExtractionMiss ==
    /\ match_pattern(QLower) # "none"
    /\ ~truthy(required_entity(match_pattern(QLower), question.v))

CatalogFailure == CountCalls(CatalogOps) >= 1 /\ env.graph.raises

\* C5: on an extraction miss or a catalog failure the direct router hands
\* the original question to LLM synthesis and returns exactly its result.
C5_FallbackToLLM ==
    (DirectAnswered /\ (ExtractionMiss \/ CatalogFailure))
    => /\ \E i \in DOMAIN calls : calls[i] = Call("generate_and_execute", <<question>>)
       /\ \A i \in DOMAIN calls :
             calls[i].call \in {"generate_and_execute", "cypher_chain.run"}
             => calls[i].args = <<question>>
       /\ result = generate_and_execute(question, env.refresh, env.chain).ret

\* a catalog failure on a question with capitals, answered by the synthesis
C5_Witness ==
    /\ DirectAnswered
    /\ question.v = join(<<p_What_does_Acme, p_do>>)
    /\ CatalogFailure
    /\ ~env.refresh.raises /\ ~env.chain.raises
    /\ result.success
    /\ calls[Len(calls)] = Call("cypher_chain.run", <<question>>)

\* an extraction miss answered by the synthesis
C5_WitnessMiss ==
    /\ DirectAnswered /\ ExtractionMiss /\ CountCalls(CatalogOps) = 0
    /\ CountCalls({"generate_and_execute"}) = 1

\* C6: in every QueryResult process_query returns, the error is present iff
\* success is false, and the payload is present iff success is true.
C6_ResultXorError ==
    (pc = "answered" /\ IsQueryResult(result))
    => /\ (result.error.t # "None") <=> ~result.success
       /\ (result.result.t # "None") <=> result.success

\* the result built by process_query's own exception handler
C6_Witness ==
    /\ pc = "answered" /\ ~use_llm /\ question = None
    /\ IsQueryResult(result)
    /\ ~result.success /\ result.error = PyStr(msg_no_lower)

SynthesisFailed ==
    /\ CountCalls({"generate_and_execute"}) >= 1
    /\ (env.refresh.raises \/ env.chain.raises)

SynthesisMessage == IF env.refresh.raises THEN env.refresh.v ELSE env.chain.v

\* C7: process_query never raises, whatever fails; a failed synthesis is
\* returned as a failed QueryResult carrying the collaborator's message.
C7_NeverRaises ==
    pc = "answered"
    => /\ escaped = None
       /\ IsQueryResult(result)
       /\ SynthesisFailed => (~result.success /\ result.error = SynthesisMessage)

\* catalog failure, then schema refresh failure, absorbed into a failed result
C7_Witness ==
    /\ DirectAnswered
    /\ CatalogFailure /\ env.refresh.raises
    /\ escaped = None /\ ~result.success /\ result.error = PyStr(msg_schema)

\* the direct patterns in their priority order: the two keywords and the
\* catalog operation of each
PatternOrder ==
    << <<kw_investment_firms, kw_near, "spatial_query">>,
       <<kw_investment_firms, kw_in, "get_investment_firms_by_city">>,
       <<kw_companies, kw_in, "get_companies_by_city">>,
       <<kw_what_does, kw_do, "get_company_description">> >>

\* the patterns whose keywords are both contained in the lowercased question
Matching == {i \in DOMAIN PatternOrder : HasPair(PatternOrder[i][1], PatternOrder[i][2])}

FirstMatch == CHOOSE i \in Matching : \A j \in Matching : i <= j

\* the entity the pattern at position i needs, and the arguments it passes
EntityOf(i) ==
    IF i = 4 THEN extract_company_from_question(question.v)
    ELSE extract_city_from_question(question.v)

ArgsOf(i) == IF i = 1 THEN <<EntityOf(i), PyStr(str_Manager)>> ELSE <<EntityOf(i)>>

\* every catalog call of the trace is the given one, and there is none when
\* the entity could not be extracted
OnlyCall(op, args, needed) ==
    /\ \A k \in DOMAIN calls : calls[k].call \in CatalogOps => calls[k] = Call(op, args)
    /\ ~truthy(needed) => CountCalls(CatalogOps) = 0

OnlyPattern(i) == OnlyCall(PatternOrder[i][3], ArgsOf(i), EntityOf(i))

\* with the matching patterns m, only the first of them can make its call
FirstWins(m) ==
    IF m = {}
    THEN CountCalls(CatalogOps) = 0
    ELSE OnlyPattern(CHOOSE i \in m : \A j \in m : i <= j)

\* C13: first match wins: a catalog operation is invoked only if it is the
\* operation of the first pattern, in the order (a) (b) (c) (d), whose two
\* keywords are contained in the lowercased question, with that pattern's
\* arguments; when the entity of the first matching pattern cannot be
\* extracted no catalog operation is invoked, not even that of a later
\* matching pattern.
C13_FirstMatchWins == DirectAnswered => FirstWins(Matching)

\* patterns (a), (b) and (c) all match: the spatial query of (a) is the call
C13_Witness ==
    /\ DirectAnswered
    /\ question.v = join(<<p_firms_companies, p_Near_Boston>>)
    /\ Matching = {1, 2, 3}
    /\ calls[3] = Call("spatial_query", <<PyStr(<<"B", "o", "s", "t", "o", "n">>), PyStr(str_Manager)>>)
    /\ CountCalls(CatalogOps) = 1

\* pattern (b) matches before (d) and finds no city, while the company of (d)
\* could be extracted: no catalog call, the question goes to the LLM
C13_WitnessMiss ==
    /\ DirectAnswered
    /\ question.v = join(<<p_What_does_Acme, p_do_for_firms>>)
    /\ Matching = {2, 4}
    /\ truthy(EntityOf(4))
    /\ CountCalls(CatalogOps) = 0
    /\ CountCalls({"generate_and_execute"}) = 1

(***************************************************************************)
(* validate_question applied to texts around its boundaries                *)
(***************************************************************************)
\* most blanks put before and after a text
MaxPad == 2

Rep(c, n) == [i \in 1..n |-> c]

t_my_Password == <<"m", "y", " ", "P", "a", "s", "s", "w", "o", "r", "d">>
t_top_SECRET_file == <<"t", "o", "p", " ", "S", "E", "C", "R", "E", "T", " ", "f", "i", "l", "e">>
t_Confidential == <<"C", "o", "n", "f", "i", "d", "e", "n", "t", "i", "a", "l">>
t_pass_word == <<"p", "a", "s", "s", " ", "w", "o", "r", "d">>
t_What_does_Acme_do == <<"W", "h", "a", "t", " ", "d", "o", "e", "s", " ", "A", "c", "m", "e", " ", "d", "o", "?">>

BodyLengths == 0..(min_question_length + 1)
               \cup (max_question_length - MaxPad - 1)..(max_question_length + 1)

Bodies == {Rep("a", n) : n \in BodyLengths}
          \cup {t_my_Password, t_top_SECRET_file, t_Confidential, t_pass_word,
                t_What_does_Acme_do}

ValidateInputs == {Rep(" ", l) \o b \o Rep(" ", t) : l \in 0..MaxPad, t \in 0..MaxPad, b \in Bodies}

InitValidate ==
    /\ pc = "validate"
    /\ question \in {PyStr(q) : q \in ValidateInputs}
    /\ use_llm = TRUE
    /\ env = NoEnv
    /\ calls = <<>>
    /\ result = None
    /\ escaped = None
    /\ validation = None
    /\ width = 80
    /\ formatted = None
    /\ printed = <<>>
    /\ exit_code = None
    /\ health = None
    /\ entity = None

ValidateQuestion ==
    /\ pc = "validate"
    /\ validation' = validate_question(question)
    /\ pc' = "validated"
    /\ UNCHANGED <<question, use_llm, env, calls, result, escaped, width, formatted,
                   printed, exit_code, health, entity>>

NextValidate == ValidateQuestion

SpecValidate == InitValidate /\ [][NextValidate]_vars

Trimmed == str_strip(question.v, Whitespace)

\* C8: a text is valid exactly when, trimmed, it is non-empty, 3 to 1000
\* characters long, and contains no denylisted term in any case; an
\* invalid text comes with a reason.
C8_ValidIffTrimmedRules ==
    pc = "validated"
    => /\ validation.valid <=>
             /\ Len(Trimmed) >= 3
             /\ Len(Trimmed) <= 1000
             /\ \A term \in {term_password, term_secret, term_confidential} :
                    ~str_contains(term, str_lower(Trimmed))
       /\ ~validation.valid => validation.reason.t = "str"

\* the boundary cases of C8 on texts without surrounding blanks
C8_Boundaries ==
    (pc = "validated" /\ question.v = Trimmed /\ \A i \in 1..Len(Trimmed) : Trimmed[i] = "a")
    => /\ Len(Trimmed) = 2 => ~validation.valid
       /\ Len(Trimmed) = 3 => validation.valid
       /\ Len(Trimmed) = 1000 => validation.valid
       /\ Len(Trimmed) = 1001 => ~validation.valid

C8_BoundariesWitness ==
    /\ pc = "validated" /\ question.v = Rep("a", 1000) /\ validation.valid

(***************************************************************************)
(* format_result applied to results of every payload shape                 *)
(***************************************************************************)
\* longest list payload
MaxItems == 2

str_city == <<"c", "i", "t", "y">>
str_Boston == <<"B", "o", "s", "t", "o", "n">>
str_text == <<"A", "c", "m", "e", " ", "C", "o", "r", "p", " ", "m", "a", "k", "e", "s", " ", " ", "w", "i", "d", "g", "e", "t", "s">>

rec_full == PyDict(<< <<str_name, PyStr(str_Acme_Corp)>> >>)
rec_partial == PyDict(<< <<str_name, None>>, <<str_city, PyStr(str_Boston)>> >>)
rec_absent == PyDict(<< <<str_name, None>> >>)

ListItems == {rec_full, rec_partial, rec_absent, PyStr(str_text), PyInt(0)}
Scalars == {PyInt(0), PyInt(42), PyStr(<<>>), PyStr(<<" ", " ">>), PyStr(str_text)}
Payloads == {None} \cup Scalars
            \cup {PyList(items) : items \in UNION {[1..n -> ListItems] : n \in 0..MaxItems}}

FormatInputs ==
    {QueryResult(TRUE, PyStr(t_What_does_Acme_do), p, None) : p \in Payloads}
    \cup {QueryResult(FALSE, PyStr(t_What_does_Acme_do), None, PyStr(m)) :
             m \in {msg_llm_failed, msg_schema}}

Widths == {0, 4, 80}

InitFormat ==
    /\ pc = "format"
    /\ result \in FormatInputs
    /\ width \in Widths
    /\ question = result.question
    /\ use_llm = TRUE
    /\ env = NoEnv
    /\ calls = <<>>
    /\ escaped = None
    /\ validation = None
    /\ formatted = None
    /\ printed = <<>>
    /\ exit_code = None
    /\ health = None
    /\ entity = None

FormatResult ==
    /\ pc = "format"
    /\ LET c == format_result(result, width)
       IN /\ formatted' = c.ret
          /\ escaped' = c.exc
    /\ pc' = "formatted"
    /\ UNCHANGED <<question, use_llm, env, calls, result, validation, width, printed,
                   exit_code, health, entity>>

NextFormat == FormatResult

SpecFormat == InitFormat /\ [][NextFormat]_vars

NoPayload == result.result.t = "None" \/ (result.result.t = "list" /\ Len(result.result.v) = 0)

\* C10: a failure gives "Error: " and the message; a success with an absent
\* or empty-list payload gives "No results found."; a success with a scalar
\* payload, whatever its value, gives the wrapped str() of the scalar; and a
\* success gives "No results found." only for an absent or empty-list payload.
C10_ByPayloadShape ==
    (pc = "formatted" /\ escaped = None)
    => /\ ~result.success => formatted = PyStr(str_error_prefix \o py_str(result.error))
       /\ (result.success /\ NoPayload) => formatted = PyStr(str_no_results)
       /\ (result.success /\ result.result.t \in {"str", "int"})
              => formatted = textwrap_fill(py_str(result.result), width).ret
       /\ (result.success /\ formatted = PyStr(str_no_results)) => NoPayload

\* C10 for the payloads that Python counts as true: the part that holds
C10_TruthyScalars ==
    (pc = "formatted" /\ escaped = None /\ result.success
       /\ result.result.t \in {"str", "int"} /\ truthy(result.result))
    => formatted = textwrap_fill(py_str(result.result), width).ret

\* a payload that reaches textwrap.fill: a true scalar or a non-empty list
ReachesWrap == result.success /\ truthy(result.result)

\* C11: formatter totality: for every result and every width passed to
\* format_result the call returns a string and raises nothing.
C11_FormatterTotal ==
    pc = "formatted" => (escaped = None /\ formatted.t = "str")

\* C11 for the widths textwrap accepts: with a width of at least 1 the call
\* returns a string for every payload shape
C11_TotalForPositiveWidths ==
    (pc = "formatted" /\ width >= 1) => (escaped = None /\ formatted.t = "str")

\* C11 for the results that never reach textwrap.fill: a string at any width
C11_TotalWithoutWrap ==
    (pc = "formatted" /\ ~ReachesWrap) => (escaped = None /\ formatted.t = "str")

\* a list of records whose values are all absent is formatted at a positive
\* width
C11_PositiveWidthWitness ==
    /\ pc = "formatted"
    /\ width >= 1
    /\ result.success
    /\ result.result = PyList(<<rec_absent, rec_absent>>)
    /\ formatted = PyStr(<<"\n", "\n">>)

(***************************************************************************)
(* The command line: main, run_single_query, run_interactive               *)
(***************************************************************************)
l_quit == <<"q", "u", "i", "t">>
l_EXIT == <<" ", "E", "X", "I", "T", " ">>
l_Health == <<"H", "e", "a", "l", "t", "h">>
l_blank == <<" ", " ">>
l_ab == <<"a", "b">>
l_companies == <<"W", "h", "a", "t", " ", "c", "o", "m", "p", "a", "n", "i", "e", "s", " ", "a", "r", "e", " ", "i", "n", " ", "B", "o", "s", "t", "o", "n", "?">>
l_firms == <<" ", "W", "h", "a", "t", " ", "i", "n", "v", "e", "s", "t", "m", "e", "n", "t", " ", "f", "i", "r", "m", "s", " ", "a", "r", "e", " ", "N", "e", "a", "r", " ", "B", "o", "s", "t", "o", "n", "?", " ">>
l_state == <<"W", "h", "i", "c", "h", " ", "s", "t", "a", "t", "e", " ", "h", "a", "s", " ", "t", "h", "e", " ", "m", "o", "s", "t", " ", "i", "n", "v", "e", "s", "t", "m", "e", "n", "t", " ", "f", "i", "r", "m", "s", "?">>

\* the lines typed at the prompt or given with --question
CliLines == {l_quit, l_EXIT, l_Health, <<>>, l_blank, l_ab, t_my_Password,
             l_companies, l_firms, l_state, Rep("a", min_question_length)}

\* how the collaborators answer while one input is handled
CliEnvs == [graph : {Returns(Records), Raises(msg_db_down)},
            refresh : RefreshOutcomes,
            chain : ChainOutcomes,
            probe : {Returns(PyList(<<>>)), Raises(msg_db_down)}]

InitCLI ==
    /\ pc = "main"
    /\ question = None
    /\ use_llm = use_llm_default
    /\ env = NoEnv
    /\ calls = <<>>
    /\ result = None
    /\ escaped = None
    /\ validation = None
    /\ width = width_default
    /\ formatted = None
    /\ printed = <<>>
    /\ exit_code = None
    /\ health = None
    /\ entity = None

\* the state after one input has been handled; the collaborators' answers
\* are kept only when a collaborator was called
Leave(h, e, next_pc) ==
    /\ question' = h.question
    /\ validation' = h.validation
    /\ calls' = h.calls
    /\ result' = h.result
    /\ formatted' = h.formatted
    /\ printed' = h.printed
    /\ exit_code' = h.exit_code
    /\ health' = h.health
    /\ escaped' = h.escaped
    /\ env' = IF h.calls = <<>> THEN NoEnv ELSE e
    /\ pc' = next_pc
    /\ UNCHANGED <<use_llm, width, entity>>

\* main: construction of the application fails; the error is printed and
\* the process exits with status 1
MainStartupFails ==
    /\ pc = "main"
    /\ Leave(Handled(None, None, <<>>, None, None,
                     <<PyStr(str_error_prefix \o msg_db_down)>>, PyInt(1), None, None),
             NoEnv, "exited")

\* main --health
MainHealth ==
    /\ pc = "main"
    /\ \E e \in CliEnvs : Leave(main_health(e), e, "exited")

\* main --question: a non-empty argument goes to run_single_query
MainSingleQuery ==
    /\ pc = "main"
    /\ \E line \in CliLines \ {<<>>}, e \in CliEnvs :
          Leave(run_single_query(PyStr(line), e), e, "exited")

\* main without arguments: run_interactive prints its banner
MainInteractive ==
    /\ pc = "main"
    /\ Leave(Handled(None, None, <<>>, None, None,
                     out_banner, None, None, None),
             NoEnv, "prompt")

\* one line read at the prompt
InteractiveStep ==
    /\ pc = "prompt"
    /\ \E line \in CliLines, e \in CliEnvs :
          LET h == run_interactive_step(line, e)
          IN Leave(h, e, IF h.printed = <<PyStr(out_goodbye)>> THEN "exited" ELSE "prompt")

NextCLI ==
    \/ MainStartupFails
    \/ MainHealth
    \/ MainSingleQuery
    \/ MainInteractive
    \/ InteractiveStep

SpecCLI == InitCLI /\ [][NextCLI]_vars

(***************************************************************************)
(* Properties of the command line                                          *)
(***************************************************************************)
IsValidation(v) == "valid" \in DOMAIN v

C9_RejectedNotProcessed ==
    (IsValidation(validation) /\ ~validation.valid)
    => /\ calls = <<>>
       /\ result = None /\ formatted = None /\ health = None
       /\ printed = <<PyStr((IF pc = "prompt" THEN out_invalid ELSE str_error_prefix)
                            \o validation.reason.v)>>

C9_Witness ==
    /\ pc = "exited"
    /\ question = PyStr(t_my_Password)
    /\ IsValidation(validation) /\ ~validation.valid
    /\ validation.reason = PyStr(msg_inappropriate)
    /\ calls = <<>>

C9_WitnessInteractive ==
    /\ pc = "prompt"
    /\ question = PyStr(l_ab)
    /\ IsValidation(validation) /\ validation.reason = PyStr(msg_too_short)
    /\ calls = <<>>

(***************************************************************************)
(* Properties of the health check                                          *)
(***************************************************************************)
\* health_check ran: its connectivity probe is the first call
HealthChecked == calls # <<>> /\ calls[1].call = "graph.query"

\* the canonical question, asked as health_check asks it, returned success
CanonicalSucceeded ==
    process_query(PyStr(str_canonical), use_llm, env.graph, env.refresh, env.chain).ret.success

StatusOf(component) ==
    LET i == CHOOSE j \in 1..Len(health.v) : health.v[j][1] = component
    IN health.v[i][2]

\* C12: health_check propagates no connectivity failure; its report marks
\* the graph healthy iff the probe succeeded, the routing healthy iff the
\* canonical question returned success, and the whole healthy iff both are;
\* with the graph unreachable the graph and the whole are unhealthy.
C12_HealthReport ==
    HealthChecked
    => /\ escaped = None
       /\ health # None
       /\ health.t = "dict"
       /\ [j \in 1..Len(health.v) |-> health.v[j][1]]
              = <<str_graph_database, str_cypher_generation, str_overall>>
       /\ \A j \in 1..Len(health.v) :
              health.v[j][2] \in {PyStr(str_healthy), PyStr(str_unhealthy)}
       /\ \E j \in 1..Len(calls) :
              calls[j] = Call("process_query", <<PyStr(str_canonical), use_llm_default>>)
       /\ (StatusOf(str_graph_database) = PyStr(str_healthy)) <=> ~env.probe.raises
       /\ (StatusOf(str_cypher_generation) = PyStr(str_healthy)) <=> CanonicalSucceeded
       /\ (StatusOf(str_overall) = PyStr(str_healthy))
              <=> (/\ StatusOf(str_graph_database) = PyStr(str_healthy)
                   /\ StatusOf(str_cypher_generation) = PyStr(str_healthy))
       /\ env.probe.raises
              => (/\ StatusOf(str_graph_database) = PyStr(str_unhealthy)
                  /\ StatusOf(str_overall) = PyStr(str_unhealthy))

\* the graph is unreachable while the canonical question succeeds: the
\* report is returned with the graph and the whole unhealthy
C12_Witness ==
    /\ HealthChecked
    /\ env.probe.raises
    /\ CanonicalSucceeded
    /\ health # None
    /\ StatusOf(str_cypher_generation) = PyStr(str_healthy)
    /\ StatusOf(str_overall) = PyStr(str_unhealthy)

(***************************************************************************)
(* The extraction functions applied to questions built from words          *)
(***************************************************************************)
\* longest question, in words
MaxWords == 3

e_in == <<"i", "n">>
e_Near == <<"N", "e", "a", "r">>
e_AT == <<"A", "T">>
e_Santa == <<"S", "a", "n", "t", "a">>
e_Clara == <<"C", "l", "a", "r", "a", "?">>
e_dot_NET == <<".", "N", "E", "T", ",">>
e_marks == <<"?", "!">>
e_What_does == <<"W", "h", "a", "t", " ", "d", "o", "e", "s">>
e_Adobe == <<"A", "d", "o", "b", "e">>
e_do == <<"d", "o", "?">>

ExtractPieces == {e_in, e_Near, e_AT, e_Santa, e_Clara, e_dot_NET, e_marks,
                  e_What_does, e_Adobe, e_do}

\* the questions handed to the extraction functions
ExtractInputs == {join(ps) : ps \in UNION {[1..n -> ExtractPieces] : n \in 0..MaxWords}}

InitExtract ==
    /\ pc = "extract"
    /\ question \in {PyStr(q) : q \in ExtractInputs}
    /\ use_llm = FALSE
    /\ env = NoEnv
    /\ calls = <<>>
    /\ result = None
    /\ escaped = None
    /\ validation = None
    /\ width = width_default
    /\ formatted = None
    /\ printed = <<>>
    /\ exit_code = None
    /\ health = None
    /\ entity = None

ExtractCity ==
    /\ pc = "extract"
    /\ entity' = extract_city_from_question(question.v)
    /\ pc' = "city"
    /\ UNCHANGED <<question, use_llm, env, calls, result, escaped, validation, width,
                   formatted, printed, exit_code, health>>

ExtractCompany ==
    /\ pc = "extract"
    /\ entity' = extract_company_from_question(question.v)
    /\ pc' = "company"
    /\ UNCHANGED <<question, use_llm, env, calls, result, escaped, validation, width,
                   formatted, printed, exit_code, health>>

NextExtract ==
    \/ ExtractCity
    \/ ExtractCompany

SpecExtract == InitExtract /\ [][NextExtract]_vars

(***************************************************************************)
(* Properties of city extraction                                           *)
(***************************************************************************)
\* s with the characters of the set removed from its end only
TrailingStripped(s, chars) ==
    IF \A i \in 1..Len(s) : s[i] \in chars
    THEN <<>>
    ELSE SubSeq(s, 1, CHOOSE i \in 1..Len(s) :
                          s[i] \notin chars /\ \A j \in (i + 1)..Len(s) : s[j] \in chars)

Tokens == str_split(question.v)

\* the positions of the trigger words that have a following token
TriggerHits ==
    {i \in 1..Len(Tokens) : str_lower(Tokens[i]) \in {kw_in, kw_near, kw_at} /\ i < Len(Tokens)}

\* the token after the first trigger word that has one
CityToken == Tokens[(CHOOSE i \in TriggerHits : \A j \in TriggerHits : i <= j) + 1]

CityAsClaimed ==
    IF TriggerHits = {}
    THEN entity = None
    ELSE entity = PyStr(TrailingStripped(CityToken, city_punctuation))

\* C14: the city is the single token after the first trigger word ("in",
\* "near", "at", in any case) that has a following token, with only its
\* trailing '.', ',', '!', '?' removed; it is absent exactly when no trigger
\* word has a following token.
C14_CityExtraction == pc = "city" => CityAsClaimed

\* C14 for the questions whose city token does not begin with one of the
\* four punctuation characters: the part that holds
C14_UnlessLeadingPunctuation ==
    (pc = "city" /\ (TriggerHits # {} => CityToken[1] \notin city_punctuation))
    => CityAsClaimed

\* the city is absent exactly when no trigger word has a following token
C14_AbsentIffNoTrigger == pc = "city" => (entity = None <=> TriggerHits = {})

\* only one token is taken: "in Santa Clara?" gives "Santa"
C14_SantaClara ==
    /\ pc = "city"
    /\ question.v = join(<<e_in, e_Santa, e_Clara>>)
    /\ entity = PyStr(e_Santa)

(***************************************************************************)
(* Properties of company extraction                                        *)
(***************************************************************************)
\* the characters that make up a word
WordChars ==
    {LowerChars[i] : i \in 1..26} \cup {UpperChars[i] : i \in 1..26}
    \cup {Digits[i] : i \in 1..10}

\* 0-based offset of the first character after the first "what does"
PhraseEnd == str_find(QLower, kw_what_does, 0) + Len(kw_what_does)

\* "do" at 0-based offset i with no word character on either side
StandaloneDoAt(i) ==
    /\ occurs_at(QLower, kw_do, i)
    /\ (i = 0 \/ QLower[i] \notin WordChars)
    /\ (i + Len(kw_do) = Len(QLower) \/ QLower[i + Len(kw_do) + 1] \notin WordChars)

\* the offsets of the standalone words "do" after the opening phrase
ClosingDos == {i \in PhraseEnd..(Len(QLower) - Len(kw_do)) : StandaloneDoAt(i)}

\* a "do" after the opening phrase that is part of a longer word
EmbeddedDo ==
    /\ str_contains(kw_what_does, QLower)
    /\ \E i \in PhraseEnd..(Len(QLower) - Len(kw_do)) :
          occurs_at(QLower, kw_do, i) /\ ~StandaloneDoAt(i)

CompanyAsClaimed ==
    IF ~str_contains(kw_what_does, QLower) \/ ClosingDos = {}
    THEN entity = None
    ELSE entity = PyStr(str_strip(SubSeq(question.v, PhraseEnd + 1,
                                         CHOOSE i \in ClosingDos :
                                             \A j \in ClosingDos : i <= j),
                                  Whitespace))

\* C15: for a question containing "what does" in any case the company is
\* the text between the end of "what does" and the next standalone word
\* "do", trimmed of whitespace; it is absent when the question lacks "what
\* does" or no standalone "do" follows the phrase.
C15_CompanyExtraction == pc = "company" => CompanyAsClaimed

\* C15 for the questions in which every "do" after the opening phrase is a
\* word of its own: the part that holds
C15_UnlessEmbeddedDo == (pc = "company" /\ ~EmbeddedDo) => CompanyAsClaimed

\* a company whose name contains no "do" is extracted whole
C15_StandaloneWitness ==
    /\ pc = "company"
    /\ question.v = join(<<e_What_does, e_Santa, e_do>>)
    /\ ~EmbeddedDo
    /\ entity = PyStr(e_Santa)

====
